---- MODULE Spec2Model ----
(***************************************************************************)
(* Model of app.py: the chat relay's message store (save_msg,              *)
(* update_last_bot_message, load_msgs under db_lock), the upstream stream  *)
(* adapter (stream_claude_sonnet) and the /chat handler with its response  *)
(* generator gen().                                                        *)
(*                                                                         *)
(* Text is modelled as a sequence of tokens: string concatenation is \o,   *)
(* the empty string is <<>>.  A token stands for one fragment of text.     *)
(***************************************************************************)
EXTENDS Integers, Sequences, FiniteSets, TLC

\* ---------------------------------------------------------------- bounds
NReq == 2          \* concurrent requests (threaded=True: one thread each)
MaxClock == 1      \* seconds CURRENT_TIMESTAMP may advance over a run
MaxLines == 2      \* upstream lines per response

Reqs == 1..NReq
Sessions == {"s1", "s2"}

\* ------------------------------------------------------------- constants
Unlocked == 0                       \* db_lock = threading.Lock(): no holder
SupportedModel == "claude-sonnet-3.7"
OtherModel == "gpt-x"

\* fragments the code fabricates
ClaudeApiError == "ClaudeAPIError"      \* line 136
UnsupportedMsg == "UnsupportedModel"    \* line 240
ConnectionErrorMsg == "ConnectionError" \* line 244
SystemErrorMsg == "SystemError"         \* line 248
\* a "delta" value that json.loads returns as a truthy non-string (e.g. 5)
NonStr == "int:5"
IsStr(f) == f # NonStr

ContinuePrompt == [role |-> "user", content |-> <<"continue-prompt">>]

\* ------------------------------------------------------- upstream lines
\* A line of r.iter_lines(): its bytes decode as UTF-8 or not, it may carry
\* the "data: " prefix, and the rest is the body.  body is "" (nothing),
\* "[DONE]", "text" (not JSON), "array" (JSON, not an object) or "object"
\* (a JSON object with the given "type" and "delta" members; "absent" = no
\* such member).
MkLine(u, p, b, t, d) == [utf8 |-> u, prefix |-> p, body |-> b, type |-> t, delta |-> d]

EmptyLine   == MkLine(TRUE, FALSE, "", "absent", "absent")
BadUtf8Line == MkLine(FALSE, FALSE, "text", "absent", "absent")
DoneLine    == MkLine(TRUE, TRUE, "[DONE]", "absent", "absent")
TextLine    == MkLine(TRUE, TRUE, "text", "absent", "absent")
ArrayLine   == MkLine(TRUE, TRUE, "array", "absent", "absent")
DeltaA      == MkLine(TRUE, TRUE, "object", "text-delta", "a")
DeltaB      == MkLine(TRUE, FALSE, "object", "text-delta", "b")
DeltaEmpty  == MkLine(TRUE, TRUE, "object", "text-delta", "")
DeltaNonStr == MkLine(TRUE, TRUE, "object", "text-delta", NonStr)
OtherRecord == MkLine(TRUE, TRUE, "object", "reasoning", "a")

UpstreamLines == {EmptyLine, BadUtf8Line, DoneLine, TextLine, ArrayLine,
                  DeltaA, DeltaB, DeltaEmpty, DeltaNonStr, OtherRecord}

SeqsUpTo(S, n) == UNION {[1..k -> S] : k \in 0..n}

\* An upstream response: the lines it delivers, and whether the connection
\* then fails (fail with no lines: post() or raise_for_status() raises).
Upstreams == [lines : SeqsUpTo(UpstreamLines, MaxLines), fail : BOOLEAN]

\* ------------------------------------------- stream_claude_sonnet (105-136)
Skip == [kind |-> "skip", frag |-> ""]

\* Lines 121-134: what one line does inside the for loop: "skip" (continue),
\* "yield" a fragment, or "raise" an exception that leaves the loop.
LineEffect(l) ==
  IF l.utf8 /\ ~l.prefix /\ l.body = "" THEN Skip           \* `if line:` is false
  ELSE IF ~l.utf8 THEN [kind |-> "raise", frag |-> ""]      \* line.decode, outside the inner try
  ELSE LET decoded == [l EXCEPT !.prefix = FALSE]           \* decoded[6:] when it starts with "data: "
       IN  IF decoded.body = "[DONE]" THEN Skip
           ELSE IF decoded.body \in {"", "text"} THEN Skip  \* json.JSONDecodeError, caught at 133
           ELSE IF decoded.body = "array"
                THEN [kind |-> "raise", frag |-> ""]        \* list has no .get: AttributeError
           ELSE IF decoded.type = "text-delta"
                THEN LET delta == IF decoded.delta = "absent" THEN "" ELSE decoded.delta
                     IN  IF delta # "" THEN [kind |-> "yield", frag |-> delta] ELSE Skip
           ELSE Skip

\* Lines 135-136 with the handler removed: the exception leaves the generator.
OnException_reraise == [out |-> <<>>, raised |-> TRUE]

\* Lines 135-136: any exception inside the try becomes one error fragment
\* and the generator ends.
OnException == [out |-> <<ClaudeApiError>>, raised |-> FALSE]

RECURSIVE AdapterRun(_, _)
\* Lines 117-136: the fragments the generator yields for the given lines,
\* and whether an exception leaves it.
AdapterRun(lines, fail) ==
  IF lines = <<>>
  THEN IF fail THEN OnException ELSE [out |-> <<>>, raised |-> FALSE]
  ELSE LET e == LineEffect(Head(lines))
       IN  IF e.kind = "raise" THEN OnException
           ELSE LET rest == AdapterRun(Tail(lines), fail)
                IN  IF e.kind = "yield"
                    THEN [out |-> <<e.frag>> \o rest.out, raised |-> rest.raised]
                    ELSE rest

stream_claude_sonnet(up) == AdapterRun(up.lines, up.fail)

\* --------------------------------------------------------------- state
VARIABLES
  chats,         \* table chats: sequence of rows, row i has id i
  chats0,        \* the table as it was at start (history variable)
  db_lock,       \* holder of db_lock, or Unlocked
  clock,         \* CURRENT_TIMESTAMP of the latest insert, in seconds
  tie_order,     \* order the store returns rows of equal ts in: "scan" | "reverse"
  plan,          \* per request: the request body and the upstream's response
  pc,            \* per request: where its thread is
  status,        \* per request: HTTP status of the response (0: none yet)
  chat_history,  \* per request: the transcript passed to the adapter
  buffer,        \* per request: gen()'s accumulator
  forwarded,     \* per request: fragments gen() has yielded to the client
  pos,           \* per request: fragments pulled from the adapter
  called,        \* per request: the adapter was invoked
  sel,           \* per request: last_bot_msg fetched in update_last_bot_message
  commits,       \* log of bot-side writes (history variable)
  last_at_load   \* per request: id of the session's last bot row when a
                 \* continue loaded its transcript (history variable)

vars == <<chats, chats0, db_lock, clock, tie_order, plan, pc, status,
          chat_history, buffer, forwarded, pos, called, sel, commits,
          last_at_load>>

Row(i, sid, role, msg, ts) ==
  [id |-> i, session_id |-> sid, role |-> role, message |-> msg, ts |-> ts]

NoRow == [id |-> 0, message |-> <<>>]

\* ------------------------------------------------------ the store's queries
\* Rows of equal ts: the order is the store's own, fixed for one store.
TieBefore(i, j) == IF tie_order = "scan" THEN i < j ELSE i > j

\* ORDER BY ts ASC / DESC: row i is returned before row j
RowBefore(i, j, desc) ==
  \/ IF desc THEN chats[i].ts > chats[j].ts ELSE chats[i].ts < chats[j].ts
  \/ chats[i].ts = chats[j].ts /\ TieBefore(i, j)

RECURSIVE OrderBy(_, _)
OrderBy(S, desc) ==
  IF S = {} THEN <<>>
  ELSE LET f == CHOOSE i \in S : \A j \in S \ {i} : RowBefore(i, j, desc)
       IN  <<f>> \o OrderBy(S \ {f}, desc)

SessionRows(sid) == {i \in DOMAIN chats : chats[i].session_id = sid}
BotRows(sid) == {i \in SessionRows(sid) : chats[i].role = "bot"}

\* Line 60 with ORDER BY ts ASC: the oldest bot row instead of the newest.
LastBotMsg_oldest(sid) ==
  LET o == OrderBy(BotRows(sid), FALSE)
  IN  IF o = <<>> THEN NoRow ELSE [id |-> o[1], message |-> chats[o[1]].message]

\* Lines 60-61: SELECT id, message ... role='bot' ORDER BY ts DESC LIMIT 1
LastBotMsg(sid) ==
  LET o == OrderBy(BotRows(sid), TRUE)
  IN  IF o = <<>> THEN NoRow ELSE [id |-> o[1], message |-> chats[o[1]].message]

\* ------------------------------------------------------ load_msgs (69-78)
\* the pattern without re.IGNORECASE
ThinkOpen_lower == {"<think>"}

ThinkOpen == {"<think>", "<THINK>"}
ThinkClose == {"</think>", "</THINK>"}
Whitespace == {" ", "\n"}

RECURSIVE StripThink(_)
\* re.sub(r'<think>[\s\S]*?</think>', '', s, flags=re.IGNORECASE)
StripThink(s) ==
  IF s = <<>> THEN <<>>
  ELSE IF Head(s) \in ThinkOpen /\ \E j \in 2..Len(s) : s[j] \in ThinkClose
       THEN LET j == CHOOSE k \in 2..Len(s) :
                       /\ s[k] \in ThinkClose
                       /\ \A m \in 2..(k-1) : s[m] \notin ThinkClose
            IN  StripThink(SubSeq(s, j + 1, Len(s)))
       ELSE <<Head(s)>> \o StripThink(Tail(s))

RECURSIVE Strip(_)
\* str.strip()
Strip(s) ==
  IF s = <<>> THEN <<>>
  ELSE IF Head(s) \in Whitespace THEN Strip(Tail(s))
  ELSE IF s[Len(s)] \in Whitespace THEN Strip(SubSeq(s, 1, Len(s) - 1))
  ELSE s

RECURSIVE Transcript(_)
\* Lines 73-77 over the fetched rows
Transcript(ids) ==
  IF ids = <<>> THEN <<>>
  ELSE LET row == chats[Head(ids)]
           role == IF row.role = "bot" THEN "assistant" ELSE row.role
           clean_message == Strip(StripThink(row.message))
       IN  (IF clean_message # <<>>
            THEN <<[role |-> role, content |-> clean_message]>>
            ELSE <<>>) \o Transcript(Tail(ids))

load_msgs(sid) == Transcript(OrderBy(SessionRows(sid), FALSE))

\* ------------------------------------------------------------ requests
\* Line 217
user_message_to_save(p) ==
  IF p.fileInfo THEN <<"[File: name]", "\n">> \o p.text ELSE p.text

\* Lines 251-256: where gen() goes once the fragment loop is over
CommitPc_always(action, buf) ==
  IF action = "continue" THEN "ul_wait" ELSE "bot_wait"

CommitPc(action, buf) ==
  IF buf = <<>> THEN "done"
  ELSE IF action = "continue" THEN "ul_wait" ELSE "bot_wait"

\* GeneratorExit handled like an exhausted adapter: 251-256 still run
ClosePc_commit(action, buf) == CommitPc(action, buf)

\* GeneratorExit raised at a yield (238, 241, 245, 249) is a BaseException:
\* the handlers at 243 and 247 do not catch it, it leaves gen() and lines
\* 251-256 are not run
ClosePc(action, buf) == "closed"

\* threading.Lock.acquire never blocks
LockFree_broken == TRUE

\* threading.Lock.acquire proceeds only when nobody holds the lock
LockFree == db_lock = Unlocked

Set(f, r, v) == [f EXCEPT ![r] = v]

\* Lines 221-226 without the append at 226: the prompt is left out
ContinueHistory_bare(sid) == load_msgs(sid)

\* Lines 221-226: the stored transcript, then the one-off user turn
ContinueHistory(sid) == load_msgs(sid) \o <<ContinuePrompt>>

\* The fragments the adapter yields for request r's upstream response
Out(r) == stream_claude_sonnet(plan[r].up)

\* ------------------------------------------------------------- actions
\* chat(), lines 209-230, up to its first store operation.
Start(r) ==
  /\ pc[r] = "idle"
  /\ plan[r].active
  /\ LET p == plan[r]
     IN  IF ~p.hasSession \/ (p.action = "chat" /\ ~p.hasText)
         THEN \* data["session"] / data["text"]: KeyError, caught at 259
              /\ pc' = Set(pc, r, "done")
              /\ status' = Set(status, r, 500)
              /\ UNCHANGED chat_history
         ELSE IF p.action = "chat"
         THEN \* save_msg(sid, "user", ...) reaches `with db_lock`
              /\ pc' = Set(pc, r, "user_wait")
              /\ UNCHANGED <<status, chat_history>>
         ELSE IF p.action = "continue"
         THEN /\ chat_history' = Set(chat_history, r, ContinueHistory(p.sid))
              /\ pc' = Set(pc, r, "gen")
              /\ status' = Set(status, r, 200)
         ELSE /\ pc' = Set(pc, r, "done")
              /\ status' = Set(status, r, 400)
              /\ UNCHANGED chat_history
  /\ last_at_load' = IF plan[r].hasSession /\ plan[r].action = "continue"
                     THEN Set(last_at_load, r, LastBotMsg(plan[r].sid).id)
                     ELSE last_at_load
  /\ UNCHANGED <<chats, chats0, db_lock, clock, tie_order, plan, buffer,
                 forwarded, pos, called, sel, commits>>

\* save_msg line 52: `with db_lock` entered
SaveMsgAcquire(r) ==
  /\ pc[r] \in {"user_wait", "bot_wait", "ul_fb_wait"}
  /\ LockFree
  /\ db_lock' = r
  /\ pc' = Set(pc, r, CASE pc[r] = "user_wait" -> "user_cs"
                        [] pc[r] = "bot_wait" -> "bot_cs"
                        [] OTHER -> "ul_fb_cs")
  /\ UNCHANGED <<last_at_load, chats, chats0, clock, tie_order, plan, status, chat_history,
                 buffer, forwarded, pos, called, sel, commits>>

\* save_msg lines 53-55 and the end of the with block.  The row's ts is
\* CURRENT_TIMESTAMP at the insert: the time of the previous insert or later.
SaveMsgInsert(r) ==
  /\ pc[r] \in {"user_cs", "bot_cs", "ul_fb_cs"}
  /\ \E now \in clock..MaxClock :
       LET role == IF pc[r] = "user_cs" THEN "user" ELSE "bot"
           msg == IF pc[r] = "user_cs" THEN user_message_to_save(plan[r]) ELSE buffer[r]
           id == Len(chats) + 1
       IN  /\ clock' = now
           /\ chats' = Append(chats, Row(id, plan[r].sid, role, msg, now))
           /\ commits' = IF role = "bot"
                         THEN Append(commits, [req |-> r, id |-> id, op |-> "append", buf |-> msg])
                         ELSE commits
  /\ db_lock' = Unlocked
  /\ pc' = Set(pc, r, IF pc[r] = "user_cs" THEN "load" ELSE "done")
  /\ UNCHANGED <<last_at_load, chats0, tie_order, plan, status, chat_history,
                 buffer, forwarded, pos, called, sel>>

\* chat() line 219, then the Response is returned (258)
LoadMsgs(r) ==
  /\ pc[r] = "load"
  /\ chat_history' = Set(chat_history, r, load_msgs(plan[r].sid))
  /\ pc' = Set(pc, r, "gen")
  /\ status' = Set(status, r, 200)
  /\ UNCHANGED <<last_at_load, chats, chats0, db_lock, clock, tie_order, plan, buffer,
                 forwarded, pos, called, sel, commits>>

\* Line 235 without the model test: every model goes to the adapter
Supported_any(r) == TRUE

\* Line 235
Supported(r) == plan[r].model = SupportedModel
\* Line 236 handing over the adapter's last fragment whatever was consumed
NextFragment_last(r) == Out(r).out[Len(Out(r).out)]

\* Line 236: the fragment the adapter yields when gen() resumes it
NextFragment(r) == Out(r).out[pos[r] + 1]
MoreFragments(r) == Supported(r) /\ pos[r] < Len(Out(r).out)
AdapterRaised(r) == Supported(r) /\ pos[r] = Len(Out(r).out) /\ Out(r).raised
\* gen() is about to yield something
WillYield(r) == ~Supported(r) \/ MoreFragments(r) \/ AdapterRaised(r)

\* gen() lines 233-250: one fragment is produced and yielded to the client,
\* and the generator is resumed.
GenPull(r) ==
  /\ pc[r] = "gen"
  /\ WillYield(r)
  /\ IF MoreFragments(r)
     THEN LET f == NextFragment(r)
          IN  /\ pos' = Set(pos, r, pos[r] + 1)
              /\ called' = Set(called, r, TRUE)
              /\ IF IsStr(f)
                 THEN /\ buffer' = Set(buffer, r, buffer[r] \o <<f>>)     \* 237
                      /\ forwarded' = Set(forwarded, r, forwarded[r] \o <<f>>)  \* 238
                      /\ UNCHANGED pc
                 ELSE \* buffer += chunk_text raises TypeError: lines 247-250
                      /\ forwarded' = Set(forwarded, r, forwarded[r] \o <<SystemErrorMsg>>)
                      /\ buffer' = Set(buffer, r, <<SystemErrorMsg>>)
                      /\ pc' = Set(pc, r, CommitPc(plan[r].action, <<SystemErrorMsg>>))
     ELSE IF AdapterRaised(r)
     THEN \* lines 243-246
          /\ forwarded' = Set(forwarded, r, forwarded[r] \o <<ConnectionErrorMsg>>)
          /\ buffer' = Set(buffer, r, <<ConnectionErrorMsg>>)
          /\ pc' = Set(pc, r, CommitPc(plan[r].action, <<ConnectionErrorMsg>>))
          /\ called' = Set(called, r, TRUE)
          /\ UNCHANGED pos
     ELSE \* lines 239-242
          /\ forwarded' = Set(forwarded, r, forwarded[r] \o <<UnsupportedMsg>>)
          /\ buffer' = Set(buffer, r, <<UnsupportedMsg>>)
          /\ pc' = Set(pc, r, CommitPc(plan[r].action, <<UnsupportedMsg>>))
          /\ UNCHANGED <<pos, called>>
  /\ UNCHANGED <<last_at_load, chats, chats0, db_lock, clock, tie_order, plan, status,
                 chat_history, sel, commits>>

\* gen(): the for loop at 236 ends (the adapter is exhausted), then 251-256
\* up to the store operation.
GenFinish(r) ==
  /\ pc[r] = "gen"
  /\ ~WillYield(r)
  /\ called' = Set(called, r, TRUE)
  /\ pc' = Set(pc, r, CommitPc(plan[r].action, buffer[r]))
  /\ UNCHANGED <<last_at_load, chats, chats0, db_lock, clock, tie_order, plan, status,
                 chat_history, buffer, forwarded, pos, sel, commits>>

\* The client goes away while gen() is suspended in a yield: the generator
\* is closed, GeneratorExit is raised at the yield and leaves gen().
GenClose(r) ==
  /\ pc[r] = "gen"
  /\ WillYield(r)
  /\ IF MoreFragments(r)
     THEN LET f == NextFragment(r)
          IN  /\ pos' = Set(pos, r, pos[r] + 1)
              /\ buffer' = IF IsStr(f) THEN Set(buffer, r, buffer[r] \o <<f>>) ELSE buffer
     ELSE UNCHANGED <<pos, buffer>>
  /\ called' = IF Supported(r) THEN Set(called, r, TRUE) ELSE called
  /\ pc' = Set(pc, r, ClosePc(plan[r].action, buffer'[r]))
  /\ UNCHANGED <<last_at_load, chats, chats0, db_lock, clock, tie_order, plan, status,
                 chat_history, forwarded, sel, commits>>

\* update_last_bot_message lines 58-62: lock taken, last bot row fetched
ULBegin(r) ==
  /\ pc[r] = "ul_wait"
  /\ LockFree
  /\ db_lock' = r
  /\ LET last_bot_msg == LastBotMsg(plan[r].sid)
     IN  /\ sel' = Set(sel, r, last_bot_msg)
         /\ pc' = Set(pc, r, IF last_bot_msg.id # 0
                             THEN "ul_update"
                             ELSE "ul_fb_wait")   \* line 67 calls save_msg
  /\ UNCHANGED <<last_at_load, chats, chats0, clock, tie_order, plan, status, chat_history,
                 buffer, forwarded, pos, called, commits>>

\* update_last_bot_message lines 63-65 and the end of the with block
ULUpdate(r) ==
  /\ pc[r] = "ul_update"
  /\ LET updated_message == sel[r].message \o buffer[r]
     IN  chats' = [chats EXCEPT ![sel[r].id].message = updated_message]
  /\ commits' = Append(commits, [req |-> r, id |-> sel[r].id, op |-> "update_last",
                                 buf |-> buffer[r]])
  /\ db_lock' = Unlocked
  /\ pc' = Set(pc, r, "done")
  /\ UNCHANGED <<last_at_load, chats0, clock, tie_order, plan, status, chat_history,
                 buffer, forwarded, pos, called, sel>>

Next ==
  \/ \E r \in Reqs : Start(r)
  \/ \E r \in Reqs : SaveMsgAcquire(r)
  \/ \E r \in Reqs : SaveMsgInsert(r)
  \/ \E r \in Reqs : LoadMsgs(r)
  \/ \E r \in Reqs : GenPull(r)
  \/ \E r \in Reqs : GenFinish(r)
  \/ \E r \in Reqs : GenClose(r)
  \/ \E r \in Reqs : ULBegin(r)
  \/ \E r \in Reqs : ULUpdate(r)

\* ---------------------------------------------------------- initial states
MkPlan(hs, sid, action, ht, fi, model, up) ==
  [active |-> TRUE, hasSession |-> hs, sid |-> sid, action |-> action,
   hasText |-> ht, text |-> <<"hi">>, fileInfo |-> fi, model |-> model, up |-> up]

NoUpstream == [lines |-> <<>>, fail |-> FALSE]
OneDelta(l) == [lines |-> <<l>>, fail |-> FALSE]

\* a request slot that receives no request
NoRequest == [MkPlan(TRUE, "s1", "chat", TRUE, FALSE, SupportedModel, NoUpstream)
                EXCEPT !.active = FALSE]

\* Requests of the concurrent scenario: valid chat and continue requests on
\* any session, each answered by one text delta.
ConcPlans(r) ==
  {MkPlan(TRUE, sid, action, TRUE, FALSE, SupportedModel,
          OneDelta(IF r % 2 = 1 THEN DeltaA ELSE DeltaB)) :
     sid \in Sessions, action \in {"chat", "continue"}}

\* Requests of the single-request scenario: every request shape, and every
\* upstream response for those that reach the adapter.
StreamPlans ==
  {MkPlan(TRUE, "s1", action, TRUE, FALSE, SupportedModel, up) :
     action \in {"chat", "continue"}, up \in Upstreams}
  \cup {MkPlan(TRUE, "s1", action, TRUE, fi, OtherModel, OneDelta(DeltaA)) :
          action \in {"chat", "continue"}, fi \in BOOLEAN}
  \cup {MkPlan(TRUE, "s1", "delete", TRUE, FALSE, SupportedModel, NoUpstream),
        MkPlan(FALSE, "s1", "delete", TRUE, FALSE, SupportedModel, NoUpstream),
        MkPlan(FALSE, "s1", "chat", TRUE, FALSE, SupportedModel, NoUpstream),
        MkPlan(FALSE, "s1", "continue", TRUE, FALSE, SupportedModel, NoUpstream),
        MkPlan(TRUE, "s1", "chat", FALSE, FALSE, SupportedModel, NoUpstream)}

\* Tables earlier requests leave behind: none, one chat exchange, two chat
\* exchanges within the same second.
Exchange(n, d) ==
  <<Row(n, "s1", "user", <<"hi">>, 0), Row(n + 1, "s1", "bot", <<d>>, 0)>>

\* A table whose messages carry thinking blocks and surrounding whitespace:
\* row 3 is nothing but a block, row 4 has a block that is never closed.
ThinkStore ==
  <<Row(1, "s1", "user", <<" ", "hi", "\n">>, 0),
    Row(2, "s1", "bot", <<"<THINK>", "x", "</think>", " ", "a">>, 0),
    Row(3, "s1", "user", <<"<think>", "</THINK>", " ">>, 0),
    Row(4, "s1", "bot", <<"b", "<think>", "c">>, 0)>>

InitStores ==
  {<<>>, Exchange(1, "a"), Exchange(1, "a") \o Exchange(3, "b"), ThinkStore}

InitCommon ==
  /\ chats0 = chats
  /\ db_lock = Unlocked
  /\ clock = 0
  /\ tie_order \in {"scan", "reverse"}
  /\ pc = [r \in Reqs |-> "idle"]
  /\ status = [r \in Reqs |-> 0]
  /\ chat_history = [r \in Reqs |-> <<>>]
  /\ buffer = [r \in Reqs |-> <<>>]
  /\ forwarded = [r \in Reqs |-> <<>>]
  /\ pos = [r \in Reqs |-> 0]
  /\ called = [r \in Reqs |-> FALSE]
  /\ sel = [r \in Reqs |-> NoRow]
  /\ commits = <<>>
  /\ last_at_load = [r \in Reqs |-> 0]

\* Concurrent requests, on a table where session s1 has had one chat
\* exchange and session s2 has no message yet
Init ==
  /\ chats = Exchange(1, "a")
  /\ InitCommon
  /\ plan \in {f \in [Reqs -> UNION {ConcPlans(r) : r \in Reqs}] :
                 \A r \in Reqs : f[r] \in ConcPlans(r)}

Spec == Init /\ [][Next]_vars

\* Fair scheduling: a thread that can take its next step eventually takes
\* it, and a thread waiting at `with db_lock` gets the lock if it is free
\* again and again. The client's disconnect (GenClose) is not scheduled.
Fairness ==
  \A r \in Reqs :
    /\ WF_vars(Start(r)) /\ WF_vars(LoadMsgs(r))
    /\ WF_vars(GenPull(r)) /\ WF_vars(GenFinish(r))
    /\ SF_vars(SaveMsgAcquire(r)) /\ SF_vars(ULBegin(r))
    /\ WF_vars(SaveMsgInsert(r)) /\ WF_vars(ULUpdate(r))

\* Two concurrent requests on the table of Init: request 1 is a continue on
\* s1 (which has a bot message) or on s2 (which has none), request 2 a chat
\* or a continue on s1
InitFair ==
  /\ chats = Exchange(1, "a")
  /\ InitCommon
  /\ \E sid \in Sessions, action \in {"chat", "continue"} :
       plan = [r \in Reqs |->
                 IF r = 1
                 THEN MkPlan(TRUE, sid, "continue", TRUE, FALSE, SupportedModel, OneDelta(DeltaA))
                 ELSE IF r = 2
                 THEN MkPlan(TRUE, "s1", action, TRUE, FALSE, SupportedModel, OneDelta(DeltaB))
                 ELSE NoRequest]

SpecFair == InitFair /\ [][Next]_vars /\ Fairness

\* One request at a time, every request shape and upstream response
InitStream ==
  /\ chats \in InitStores
  /\ InitCommon
  /\ \E p \in StreamPlans : plan = [r \in Reqs |-> IF r = 1 THEN p ELSE NoRequest]

SpecStream == InitStream /\ [][Next]_vars

\* ------------------------------------------------------------ properties
\* Request r is past `with db_lock` in save_msg or update_last_bot_message
InStoreOp(r) == pc[r] \in {"user_cs", "bot_cs", "ul_update", "ul_fb_wait", "ul_fb_cs"}
\* Request r is blocked at `with db_lock`
WaitsForLock(r) == pc[r] \in {"user_wait", "bot_wait", "ul_wait", "ul_fb_wait"}
\* gen() of request r has left its fragment loop and reached line 251
StreamEnded(r) ==
  \/ pc[r] \in {"bot_wait", "bot_cs", "ul_wait", "ul_update", "ul_fb_wait", "ul_fb_cs"}
  \/ pc[r] = "done" /\ status[r] = 200
\* The bot-side writes request r has made
CommitsOf(r) == SelectSeq(commits, LAMBDA c : c.req = r)
\* The fragments the adapter has yielded to gen() so far
Pulled(r) == SubSeq(Out(r).out, 1, pos[r])
\* gen() has consumed the adapter's whole fragment sequence
AdapterExhausted(r) ==
  Supported(r) /\ called[r] /\ StreamEnded(r) /\ pos[r] = Len(Out(r).out)

RECURSIVE CommitText(_, _)
\* Concatenation, in commit order, of the accumulators written to row i
CommitText(i, cs) ==
  IF cs = <<>> THEN <<>>
  ELSE (IF Head(cs).id = i THEN Head(cs).buf ELSE <<>>) \o CommitText(i, Tail(cs))

\* C1: update_last(S, d) called when S has no bot message completes: having
\* found no bot row, the call is never left waiting for the write lock that
\* it holds itself (from there it could neither append d nor return).
C1_UpdateLastNoBotCompletes ==
  \A r \in Reqs : pc[r] = "ul_fb_wait" => db_lock # r

\* C2: update_last(S, d) with a bot message present rewrites one of the bot
\* rows of S with the latest timestamp from its content C to C+d; the number
\* of rows is unchanged and every other row is untouched.
C2_UpdateLastAppendsInPlace ==
  [][\A r \in Reqs :
       (pc[r] = "ul_update" /\ pc'[r] = "done") =>
         LET i == sel[r].id
             S == plan[r].sid
         IN  /\ i \in BotRows(S)
             /\ \A j \in BotRows(S) : chats[j].ts <= chats[i].ts
             /\ Len(chats') = Len(chats)
             /\ chats'[i] = [chats[i] EXCEPT !.message = chats[i].message \o buffer[r]]
             /\ \A j \in DOMAIN chats : j # i => chats'[j] = chats[j]]_vars

\* C2 witness: a continue request has extended a bot row that is strictly
\* newer than another bot row of the same session.
C2_Witness ==
  \E r \in Reqs :
    /\ pc[r] = "done"
    /\ plan[r].action = "continue"
    /\ CommitsOf(r) # <<>>
    /\ CommitsOf(r)[1].op = "update_last"
    /\ \E j \in BotRows(plan[r].sid) : chats[j].ts < chats[CommitsOf(r)[1].id].ts
    /\ chats[CommitsOf(r)[1].id].message = <<"a">> \o buffer[r]

\* C3: every stored bot message is what it was at start followed by the
\* whole accumulators committed to it, each exactly once and in commit
\* order; every commit carries the whole accumulator of its request and a
\* request commits at most once.
C3_WholeAccumulators ==
  /\ \A i \in DOMAIN chats :
       chats[i].role = "bot" =>
         chats[i].message =
           (IF i <= Len(chats0) THEN chats0[i].message ELSE <<>>) \o CommitText(i, commits)
  /\ \A k \in DOMAIN commits : commits[k].buf = buffer[commits[k].req]
  /\ \A r \in Reqs : Len(CommitsOf(r)) <= 1

\* C3 witness: two continue requests on the same session have both
\* committed to the same bot row, the second request first.
C3_Witness ==
  /\ Len(commits) = 2
  /\ commits[1].req = 2 /\ commits[2].req = 1
  /\ commits[1].op = "update_last" /\ commits[2].op = "update_last"
  /\ commits[1].id = commits[2].id
  /\ plan[1].sid = plan[2].sid
  /\ chats[commits[1].id].message = chats0[commits[1].id].message \o <<"b", "a">>

\* C4: at most one request is inside a mutating store operation.
C4_SingleWriter ==
  \A r1, r2 \in Reqs : InStoreOp(r1) /\ InStoreOp(r2) => r1 = r2

\* C4 witness: one request is inside a store operation while a request on
\* another session waits for the lock.
C4_Witness ==
  \E r1, r2 \in Reqs :
    /\ r1 # r2
    /\ plan[r1].sid # plan[r2].sid
    /\ InStoreOp(r1) /\ db_lock = r1
    /\ pc[r2] \in {"user_wait", "bot_wait", "ul_wait"}

\* C5: once the fragment loop is over, a request with a non-empty
\* accumulator is in (or has finished) update_last if it is a continue and
\* append of one bot row if it is a chat, with the accumulator as text; a
\* request with an empty accumulator is finished and has written nothing.
\* Before the loop is over no bot-side write has been made.
C5_CommitDispatch ==
  \A r \in Reqs :
    IF StreamEnded(r)
    THEN IF buffer[r] = <<>>
         THEN pc[r] = "done" /\ CommitsOf(r) = <<>>
         ELSE IF plan[r].action = "continue"
         THEN \/ pc[r] \in {"ul_wait", "ul_update", "ul_fb_wait"} /\ CommitsOf(r) = <<>>
              \/ /\ pc[r] = "done"
                 /\ Len(CommitsOf(r)) = 1
                 /\ CommitsOf(r)[1].op = "update_last"
                 /\ CommitsOf(r)[1].buf = buffer[r]
         ELSE \/ pc[r] \in {"bot_wait", "bot_cs"} /\ CommitsOf(r) = <<>>
              \/ /\ pc[r] = "done"
                 /\ Len(CommitsOf(r)) = 1
                 /\ CommitsOf(r)[1].op = "append"
                 /\ CommitsOf(r)[1].buf = buffer[r]
                 /\ CommitsOf(r)[1].id > Len(chats0)
                 /\ LET id == CommitsOf(r)[1].id
                    IN  chats[id] = Row(id, plan[r].sid, "bot", buffer[r], chats[id].ts)
    ELSE CommitsOf(r) = <<>>

\* C5 witness: a continue request whose accumulator holds two fragments has
\* committed it with update_last.
C5_Witness ==
  \E r \in Reqs :
    /\ pc[r] = "done" /\ status[r] = 200
    /\ plan[r].action = "continue"
    /\ Len(buffer[r]) = 2
    /\ CommitsOf(r) # <<>>
    /\ CommitsOf(r)[1].op = "update_last"

\* C6: for a request whose stream ran to completion, the committed text is
\* the concatenation of the fragments forwarded to the client.
C6_CommittedEqualsForwarded ==
  \A r \in Reqs :
    (pc[r] = "done" /\ status[r] = 200) =>
      IF forwarded[r] = <<>>
      THEN CommitsOf(r) = <<>>
      ELSE CommitsOf(r) # <<>> /\ CommitsOf(r)[1].buf = forwarded[r]

\* The connection fails and the adapter gets as far as the failure
ReadFails(up) ==
  up.fail /\ \A i \in DOMAIN up.lines : LineEffect(up.lines[i]).kind # "raise"

\* C7: when the upstream connection fails, the adapter's fragments hold
\* exactly one error fragment, it is the last one, no exception leaves the
\* adapter, and once gen() has consumed the fragments it commits an
\* accumulator that ends with the error fragment.
C7_FailureBecomesOneFragment ==
  \A r \in Reqs :
    (Supported(r) /\ ReadFails(plan[r].up)) =>
      LET o == Out(r)
      IN  /\ ~o.raised
          /\ Cardinality({i \in DOMAIN o.out : o.out[i] = ClaudeApiError}) = 1
          /\ o.out[Len(o.out)] = ClaudeApiError
          /\ AdapterExhausted(r) =>
               /\ buffer[r] = Pulled(r)
               /\ buffer[r][Len(buffer[r])] = ClaudeApiError
               /\ \/ pc[r] \in {"bot_wait", "bot_cs", "ul_wait", "ul_update", "ul_fb_wait"}
                  \/ /\ pc[r] = "done"
                     /\ Len(CommitsOf(r)) = 1
                     /\ CommitsOf(r)[1].buf = buffer[r]

\* C7 witness: the connection failed after a delta was read and the request
\* has committed the delta followed by the error fragment.
C7_Witness ==
  \E r \in Reqs :
    /\ Supported(r) /\ ReadFails(plan[r].up)
    /\ pc[r] = "done"
    /\ AdapterExhausted(r)
    /\ buffer[r] = <<"a", ClaudeApiError>>
    /\ chats[Len(chats)].message = buffer[r]

\* A text-delta record
IsTextDelta(l) == l.utf8 /\ l.body = "object" /\ l.type = "text-delta"

RECURSIVE DeltaTexts(_)
\* The non-empty deltas of the text-delta records among the lines, in order
DeltaTexts(lines) ==
  IF lines = <<>> THEN <<>>
  ELSE (IF IsTextDelta(Head(lines)) /\ Head(lines).delta \notin {"", "absent"}
        THEN <<Head(lines).delta>>
        ELSE <<>>) \o DeltaTexts(Tail(lines))

\* C8: no line aborts the stream: for every line that is not a text-delta
\* record, the adapter's fragments are those of the lines before it followed
\* by the deltas of all text-delta lines after it.
C8_NoLineAborts ==
  \A r \in Reqs :
    (AdapterExhausted(r) /\ ~plan[r].up.fail) =>
      LET lines == plan[r].up.lines
      IN  \A i \in DOMAIN lines :
            ~IsTextDelta(lines[i]) =>
              LET after == DeltaTexts(SubSeq(lines, i + 1, Len(lines)))
                  n == Len(Pulled(r)) - Len(after)
              IN  /\ n = Len(DeltaTexts(SubSeq(lines, 1, i - 1)))
                  /\ SubSeq(Pulled(r), n + 1, Len(Pulled(r))) = after

\* C9: for every sequence of upstream lines, the adapter's fragments are
\* exactly the non-empty deltas of the text-delta records, in line order.
C9_FragmentsAreDeltas ==
  \A r \in Reqs :
    (AdapterExhausted(r) /\ ~plan[r].up.fail) =>
      Pulled(r) = DeltaTexts(plan[r].up.lines)

\* C10: a chat request for an unsupported model never invokes the adapter;
\* run to completion it has forwarded exactly the unsupported-model
\* fragment and appended exactly one bot row holding that fragment.
C10_UnsupportedModel ==
  \A r \in Reqs :
    (plan[r].active /\ plan[r].action = "chat" /\ plan[r].model # SupportedModel) =>
      /\ ~called[r]
      /\ pos[r] = 0
      /\ StreamEnded(r) => forwarded[r] = <<UnsupportedMsg>>
      /\ (pc[r] = "done" /\ status[r] = 200) =>
           /\ Len(CommitsOf(r)) = 1
           /\ CommitsOf(r)[1].op = "append"
           /\ CommitsOf(r)[1].buf = <<UnsupportedMsg>>
           /\ CommitsOf(r)[1].id > Len(chats0)
           /\ LET id == CommitsOf(r)[1].id
              IN  chats[id] = Row(id, plan[r].sid, "bot", <<UnsupportedMsg>>, chats[id].ts)

\* C10 witness: a chat request for an unsupported model has finished.
C10_Witness ==
  \E r \in Reqs :
    /\ plan[r].action = "chat"
    /\ plan[r].model # SupportedModel
    /\ plan[r].up.lines # <<>>
    /\ pc[r] = "done" /\ status[r] = 200
    /\ Len(CommitsOf(r)) = 1

\* Request r has been answered without a stream
Answered(r) == plan[r].active /\ pc[r] = "done" /\ status[r] # 200

\* C11: a request whose action is neither chat nor continue is answered
\* with 400; no stream is started, the adapter is not invoked and the table
\* is unchanged.
C11_InvalidActionIs400 ==
  \A r \in Reqs :
    (plan[r].active /\ plan[r].action \notin {"chat", "continue"} /\ pc[r] # "idle") =>
      /\ pc[r] = "done"
      /\ status[r] = 400
      /\ ~called[r]
      /\ forwarded[r] = <<>>
      /\ chats = chats0

\* C12: a request without a session, or a chat request without a text, is
\* answered with 400 and leaves the table unchanged.
C12_MissingFieldIs400 ==
  \A r \in Reqs :
    (Answered(r) /\ (~plan[r].hasSession \/ (plan[r].action = "chat" /\ ~plan[r].hasText))) =>
      /\ status[r] = 400
      /\ chats = chats0

\* C13: a continue request never stores its synthetic user turn: it never
\* enters the user-side save, every user row is a row of the initial table,
\* no row holds the prompt, and its transcript is the stored transcript
\* followed by exactly the one synthetic user turn.
C13_ContinuePromptNotPersisted ==
  \A r \in Reqs :
    (plan[r].active /\ plan[r].action = "continue" /\ plan[r].hasSession /\ pc[r] # "idle") =>
      /\ pc[r] \notin {"user_wait", "user_cs", "load"}
      /\ \A i \in DOMAIN chats :
           /\ chats[i].message # ContinuePrompt.content
           /\ chats[i].role = "user" => (i <= Len(chats0) /\ chats[i] = chats0[i])
      /\ chat_history[r] # <<>>
      /\ chat_history[r][Len(chat_history[r])] = ContinuePrompt
      /\ commits = <<>> =>
           SubSeq(chat_history[r], 1, Len(chat_history[r]) - 1) = load_msgs(plan[r].sid)
      /\ \A k \in 1..(Len(chat_history[r]) - 1) : chat_history[r][k] # ContinuePrompt

\* C13 witness: a continue request on a session with stored messages has
\* committed its accumulator.
C13_Witness ==
  \E r \in Reqs :
    /\ plan[r].action = "continue"
    /\ pc[r] = "done" /\ status[r] = 200
    /\ Len(chat_history[r]) = 3
    /\ CommitsOf(r) # <<>>

\* C14: a row's role never changes, a user row's content never changes, and
\* a bot row's content changes only in update_last and only while it is the
\* most recently inserted bot row of its session.
C14_OnlyLastInsertedBotChanges ==
  [][\A i \in DOMAIN chats :
       /\ chats'[i].role = chats[i].role
       /\ chats'[i].message # chats[i].message =>
            /\ chats[i].role = "bot"
            /\ \E r \in Reqs : pc[r] = "ul_update" /\ pc'[r] = "done" /\ sel[r].id = i
            /\ \A j \in BotRows(chats[i].session_id) : j <= i]_vars

\* Rows of S by ascending ts, rows of equal ts by ascending id
RECURSIVE ByTsThenId(_)
ByTsThenId(S) ==
  IF S = {} THEN <<>>
  ELSE LET f == CHOOSE i \in S : \A j \in S \ {i} :
                  \/ chats[i].ts < chats[j].ts
                  \/ chats[i].ts = chats[j].ts /\ i < j
       IN  <<f>> \o ByTsThenId(S \ {f})

Fetched(sid) == OrderBy(SessionRows(sid), FALSE)
\* Content of row i after thinking-block stripping and trimming
Clean(i) == Strip(StripThink(chats[i].message))
\* t is the order-preserving subsequence of the fetched rows that keeps
\* exactly those with non-empty clean content, roles remapped
IsTranscriptOf(t, sid) ==
  LET rows == Fetched(sid)
      kept == {k \in DOMAIN rows : Clean(rows[k]) # <<>>}
      rank(k) == Cardinality({m \in kept : m <= k})
  IN  /\ Len(t) = Cardinality(kept)
      /\ \A k \in kept :
           /\ t[rank(k)].role =
                (IF chats[rows[k]].role = "bot" THEN "assistant" ELSE chats[rows[k]].role)
           /\ t[rank(k)].content = Clean(rows[k])
\* c is non-empty, has no whitespace at either end and no complete
\* thinking block in any letter case
IsCleanContent(c) ==
  /\ c # <<>>
  /\ c[1] \notin {" ", "\n"}
  /\ c[Len(c)] \notin {" ", "\n"}
  /\ ~\E i, j \in DOMAIN c :
        i < j /\ c[i] \in {"<think>", "<THINK>"} /\ c[j] \in {"</think>", "</THINK>"}

\* C16: the transcript a request loads is the order-preserving subsequence
\* of the session's stored messages keeping exactly the rows whose content
\* is non-empty after stripping and trimming; bot becomes assistant, other
\* roles pass through, and the content is the stripped, trimmed content.
C16_TranscriptIsFilteredSubsequence ==
  [][\A r \in Reqs :
       (pc[r] \in {"idle", "load"} /\ pc'[r] = "gen") =>
         LET h == chat_history'[r]
             t == IF plan[r].action = "continue" THEN SubSeq(h, 1, Len(h) - 1) ELSE h
         IN  /\ IsTranscriptOf(t, plan[r].sid)
             /\ \A n \in DOMAIN t :
                  /\ t[n].role \in {"user", "assistant"}
                  /\ IsCleanContent(t[n].content)]_vars

\* A chat request has loaded the table with thinking blocks: of its five
\* rows the one that is only a block is dropped
C16_Witness ==
  \E r \in Reqs :
    /\ pc[r] = "gen" /\ plan[r].action = "chat" /\ chats0 = ThinkStore
    /\ Len(chats) = 5 /\ Len(chat_history[r]) = 4
    /\ \E n \in 1..4 : chat_history[r][n] = [role |-> "assistant", content |-> <<"a">>]

\* What the client has received from request r is a prefix of the adapter's
\* fragment sequence, in the adapter's order, possibly followed by the one
\* message gen() makes itself when it gives up
ForwardedInOrder(r) ==
  IF Supported(r)
  THEN \E k \in 0..pos[r] :
         \/ forwarded[r] = SubSeq(Out(r).out, 1, k)
         \/ \E e \in {ConnectionErrorMsg, SystemErrorMsg} :
              forwarded[r] = SubSeq(Out(r).out, 1, k) \o <<e>>
  ELSE forwarded[r] \in {<<>>, <<UnsupportedMsg>>}
\* The user message of chat request r is a row appended to the table
UserMessageStored(r) ==
  \E i \in DOMAIN chats :
    /\ i > Len(chats0)
    /\ \E ts \in 0..MaxClock :
         chats[i] = Row(i, plan[r].sid, "user", user_message_to_save(plan[r]), ts)

\* C17: within one request fragments reach the client in the adapter's
\* order; a fragment is forwarded only while the request has made no
\* bot-side commit, a commit is made only once the fragment loop is over,
\* and there is at most one per request; a chat request loads its
\* transcript and forwards fragments only with its user message stored.
C17_ForwardThenCommitOnce ==
  [][\A r \in Reqs :
       /\ ForwardedInOrder(r)'
       /\ forwarded'[r] # forwarded[r] =>
            /\ pc[r] = "gen" /\ ~StreamEnded(r)
            /\ CommitsOf(r) = <<>> /\ CommitsOf(r)' = <<>>
            /\ Len(forwarded'[r]) = Len(forwarded[r]) + 1
            /\ SubSeq(forwarded'[r], 1, Len(forwarded[r])) = forwarded[r]
       /\ CommitsOf(r)' # CommitsOf(r) =>
            /\ StreamEnded(r) /\ pc'[r] = "done"
            /\ forwarded'[r] = forwarded[r]
       /\ Len(CommitsOf(r)') <= 1
       /\ plan[r].action = "chat" =>
            /\ chat_history'[r] # chat_history[r] => UserMessageStored(r)
            /\ forwarded'[r] # <<>> => UserMessageStored(r)]_vars

\* A chat request has forwarded two fragments in the adapter's order and
\* then made its one commit
C17_Witness ==
  \E r \in Reqs :
    /\ plan[r].action = "chat" /\ pc[r] = "done"
    /\ Out(r).out = <<"a", "b">> /\ forwarded[r] = <<"a", "b">>
    /\ Len(CommitsOf(r)) = 1 /\ UserMessageStored(r)

\* C18: under fair scheduling the write lock is never held forever: a
\* request holding it eventually releases it, and a request waiting at
\* `with db_lock` eventually gets past it.
C18_LockEventuallyReleased ==
  \A r \in Reqs :
    /\ (db_lock = r) ~> (db_lock # r)
    /\ WaitsForLock(r) ~> ~WaitsForLock(r)

\* C19: the bot row a continue request extends is the row that was the
\* session's most recent bot message when the request loaded its transcript.
C19_ExtendsMessageSeenAtLoad ==
  [][\A r \in Reqs :
       (pc[r] = "ul_update" /\ pc'[r] = "done") => sel[r].id = last_at_load[r]]_vars

\* C20: when the client disconnects while gen() is suspended at a yield
\* (the generator is closed with fragments still to come, nothing more is
\* forwarded), the request stops there for good and makes no bot-side
\* write: no commit, no bot row added or changed, the lock not taken,
\* whatever its action and model.
C20_DisconnectDropsAccumulator ==
  [][\A r \in Reqs :
       /\ (pc[r] = "gen" /\ WillYield(r) /\ pc'[r] # "gen" /\ forwarded'[r] = forwarded[r]) =>
            pc'[r] = "closed"
       /\ pc[r] = "closed" => pc'[r] = "closed"
       /\ pc'[r] = "closed" =>
            /\ CommitsOf(r)' = <<>>
            /\ db_lock' # r
            /\ \A i \in DOMAIN chats' :
                 chats'[i].role = "bot" => i \in DOMAIN chats0 /\ chats'[i] = chats0[i]]_vars

\* A continue request was closed mid-stream with a non-empty accumulator,
\* part of which the client had already received
C20_Witness ==
  \E r \in Reqs :
    /\ pc[r] = "closed" /\ plan[r].action = "continue"
    /\ forwarded[r] = <<"a">> /\ buffer[r] = <<"a", "b">>
    /\ commits = <<>> /\ chats = chats0 /\ chats # <<>>

====
